---- MODULE Spec2Model ----
(***************************************************************************)
(* Model of BasedGenerateTaskPipeline (src/ai_pipeline.py).                *)
(*                                                                         *)
(* Three groups of operations are modelled, each with its own              *)
(* specification because they share no state:                              *)
(*   SpecError      _handle_error / _error_to_desc and the message table   *)
(*   SpecModeration _init_output_moderation and                            *)
(*                  _handle_output_moderation_when_task_finished           *)
(*   SpecDesc       _error_to_desc called on its own (a static method)     *)
(*   SpecEnrich     _detect_anomalies / _enrich_response                   *)
(*                                                                         *)
(* Texts that are only compared or tested for emptiness are TLA+ strings.  *)
(* Texts that are searched ("suspicious" in output) or extended            *)
(* (output += ...) are sequences of one-character strings.                 *)
(***************************************************************************)
EXTENDS Integers, Sequences, FiniteSets, TLC

VARIABLES
    db,          \* message table: id -> row [status, error] or NoRow
    errCall,     \* the last _handle_error call: arguments and outcome
    dbLog,       \* persistence operations issued by the last _handle_error
    nErrCalls,   \* number of _handle_error calls so far
    config,      \* pipeline -> app_config.sensitive_word_avoidance
    handler,     \* pipeline -> self._output_moderation_handler
    modLog,      \* pipeline -> operations of the finished-call, in order
    modCall,     \* pipeline -> result of the last finished-call
    nModCalls,   \* pipeline -> number of finished-calls so far
    enrichIn,    \* argument of the last _enrich_response call
    enrichOut,   \* its result
    enrichCalls, \* number of _enrich_response calls so far
    descArg,     \* argument of the last direct _error_to_desc call
    descRet,     \* its result
    descCalls    \* number of direct _error_to_desc calls so far

vars == <<db, errCall, dbLog, nErrCalls, config, handler, modLog, modCall,
          nModCalls, enrichIn, enrichOut, enrichCalls,
          descArg, descRet, descCalls>>

errVars == <<db, errCall, dbLog, nErrCalls>>
modVars == <<config, handler, modLog, modCall, nModCalls>>
enrichVars == <<enrichIn, enrichOut, enrichCalls>>
descVars == <<descArg, descRet, descCalls>>

\* Python's None, and "the object has no such attribute"; both differ from
\* every text of the model.
None == "<None>"
Absent == "<no attribute>"

(***************************************************************************)
(* Bounds.                                                                 *)
(***************************************************************************)
MaxMsgId == 2       \* message ids 1..MaxMsgId
MaxErrCalls == 2    \* _handle_error calls per behaviour
MaxPipelines == 2   \* pipelines (one per task)
MaxModCalls == 2    \* finished-calls per pipeline
MaxFrags == 3       \* fragments concatenated into an _enrich_response input
MaxEnrich == 2      \* _enrich_response calls per behaviour
MaxDescCalls == 2   \* direct _error_to_desc calls per behaviour

(***************************************************************************)
(* Character sequences.                                                    *)
(***************************************************************************)
\* the needle of line 159
SUSPICIOUS == <<"s", "u", "s", "p", "i", "c", "i", "o", "u", "s">>

\* anomaly_description of line 160
ANOMALY_DESCRIPTION ==
    <<"S", "u", "s", "p", "i", "c", "i", "o", "u", "s", " ",
      "c", "o", "n", "t", "e", "n", "t", " ",
      "d", "e", "t", "e", "c", "t", "e", "d", " ",
      "i", "n", " ", "t", "h", "e", " ",
      "o", "u", "t", "p", "u", "t", ".">>

\* the literal part of the f-string of line 176: "\nNote: "
NOTE_PREFIX == <<"\n", "N", "o", "t", "e", ":", " ">>

\* "Note: Suspicious content detected in the output."
NOTE == Tail(NOTE_PREFIX) \o ANOMALY_DESCRIPTION

\* s[i .. i+Len(t)-1] = t
OccursAt(t, s, i) ==
    /\ i >= 1
    /\ i + Len(t) - 1 <= Len(s)
    /\ \A k \in 1..Len(t) : s[i + k - 1] = t[k]

\* Python's  t in s  for strings
Contains(t, s) == \E i \in 1..(Len(s) + 1) : OccursAt(t, s, i)

\* number of positions of s at which t occurs
Occurrences(t, s) == Cardinality({i \in 1..(Len(s) + 1) : OccursAt(t, s, i)})

(***************************************************************************)
(* _detect_anomalies, _enrich_response                                     *)
(***************************************************************************)
\* Optional[str] over character sequences
NoText == [isNone |-> TRUE, text |-> <<>>]
SomeText(t) == [isNone |-> FALSE, text |-> t]

\* Python truth value of an Optional[str]: None and "" are false
TruthyText(o) == ~o.isNone /\ o.text # <<>>

DetectAnomalies(output) ==
    LET anomaly_description ==
            IF Contains(SUSPICIOUS, output)
            THEN SomeText(ANOMALY_DESCRIPTION)
            ELSE NoText
    IN  IF TruthyText(anomaly_description) THEN anomaly_description ELSE NoText

\* a plausible slip: the note is appended whether or not an anomaly was found
EnrichResponseAlways(output) == output \o NOTE_PREFIX \o ANOMALY_DESCRIPTION

EnrichResponse(output) ==
    LET anomaly_description == DetectAnomalies(output)
    IN  IF TruthyText(anomaly_description)
        THEN output \o NOTE_PREFIX \o anomaly_description.text
        ELSE output

\* pieces the inputs are built from
Fragments ==
    { SUSPICIOUS,
      <<"S", "u", "s", "p", "i", "c", "i", "o", "u", "s">>,
      <<"o", "k", " ">>,
      NOTE,
      <<"\n">> }

RECURSIVE Texts(_)
Texts(n) ==
    IF n = 0 THEN { <<>> }
    ELSE LET shorter == Texts(n - 1)
         IN  shorter \cup { s \o f : s \in shorter, f \in Fragments }

EnrichInputs == Texts(MaxFrags)

\* a call on a fresh text
Enrich ==
    /\ enrichCalls < MaxEnrich
    /\ \E output \in EnrichInputs :
          /\ enrichIn' = output
          /\ enrichOut' = EnrichResponse(output)
    /\ enrichCalls' = enrichCalls + 1
    /\ UNCHANGED <<errVars, modVars, descVars>>

\* a call on the text the previous call returned
EnrichAgain ==
    /\ enrichCalls >= 1
    /\ enrichCalls < MaxEnrich
    /\ enrichIn' = enrichOut
    /\ enrichOut' = EnrichResponse(enrichOut)
    /\ enrichCalls' = enrichCalls + 1
    /\ UNCHANGED <<errVars, modVars, descVars>>

(***************************************************************************)
(* Exceptions.  An exception object is its identity, its class, its        *)
(* description attribute (Absent when it has none) and its str().          *)
(***************************************************************************)
Kinds == {"InvokeAuthorizationError", "InvokeError", "ValueError",
          "QuotaExceededError", "Exception"}

\* the classes of the imports of lines 9-10 and their bases:
\* InvokeAuthorizationError < InvokeError < Exception,
\* QuotaExceededError < ValueError < Exception
Bases(kind) ==
    CASE kind = "InvokeAuthorizationError" ->
             {"InvokeAuthorizationError", "InvokeError", "Exception"}
      [] kind = "InvokeError" -> {"InvokeError", "Exception"}
      [] kind = "QuotaExceededError" ->
             {"QuotaExceededError", "ValueError", "Exception"}
      [] kind = "ValueError" -> {"ValueError", "Exception"}
      [] OTHER -> {"Exception"}

IsInstance(e, cls) == cls \in Bases(e.kind)

INCORRECT_API_KEY == "Incorrect API key provided"
QUOTA_MESSAGE == "Your quota for Dify Hosted Model Provider has been exhausted. Please go to Settings -> Model Provider to complete your own provider credentials."
SUPPORT_MESSAGE == "Internal Server Error, please contact support."

\* texts an incoming failure may carry
ORIGINAL_DESCRIPTION == "original description"
ORIGINAL_STR == "original str"

\* event.error: every class, with a description attribute that is missing,
\* None, empty or a text, and an empty or non-empty str()
Causes ==
    [ id : {"cause"},
      kind : Kinds,
      description : {Absent, None, "", ORIGINAL_DESCRIPTION},
      str : {"", ORIGINAL_STR} ]

NoException == [id |-> "none", kind |-> "none", description |-> Absent, str |-> ""]

\* InvokeAuthorizationError(msg): a new object whose description and str()
\* are msg
NewInvokeAuthorizationError(msg) ==
    [id |-> "new", kind |-> "InvokeAuthorizationError",
     description |-> msg, str |-> msg]

\* Exception(msg): a new object without description whose str() is msg
NewException(msg) ==
    [id |-> "new", kind |-> "Exception", description |-> Absent, str |-> msg]

\* getattr(e, 'description', default)
GetDescription(e, default) ==
    IF e.description = Absent THEN default ELSE e.description

\* a plausible slip: the authorization failure is passed through like any
\* other InvokeError
ClassifyAuthPassThrough(e) ==
    IF IsInstance(e, "InvokeError") \/ IsInstance(e, "ValueError")
    THEN e
    ELSE NewException(IF GetDescription(e, None) # None
                      THEN e.description ELSE e.str)

\* a plausible slip: only InvokeError passes through, ValueError is wrapped
ClassifyValueErrorWrapped(e) ==
    IF IsInstance(e, "InvokeAuthorizationError")
    THEN NewInvokeAuthorizationError(INCORRECT_API_KEY)
    ELSE IF IsInstance(e, "InvokeError")
    THEN e
    ELSE NewException(IF GetDescription(e, None) # None
                      THEN e.description ELSE e.str)

\* a plausible slip: the wrapper always carries str(e)
ClassifyWrapStr(e) ==
    IF IsInstance(e, "InvokeAuthorizationError")
    THEN NewInvokeAuthorizationError(INCORRECT_API_KEY)
    ELSE IF IsInstance(e, "InvokeError") \/ IsInstance(e, "ValueError")
    THEN e
    ELSE NewException(e.str)

\* lines 55-62: err as a function of event.error
Classify(e) ==
    IF IsInstance(e, "InvokeAuthorizationError")
    THEN NewInvokeAuthorizationError(INCORRECT_API_KEY)
    ELSE IF IsInstance(e, "InvokeError") \/ IsInstance(e, "ValueError")
    THEN e
    ELSE NewException(IF GetDescription(e, None) # None
                      THEN e.description ELSE e.str)

\* Python truth value of an Optional[str]
Falsy(x) == x = None \/ x = ""

\* a plausible slip: no fallback for a missing message
ErrorToDescNoFallback(e) ==
    IF IsInstance(e, "QuotaExceededError")
    THEN QUOTA_MESSAGE
    ELSE GetDescription(e, e.str)

ErrorToDesc(e) ==
    IF IsInstance(e, "QuotaExceededError")
    THEN QUOTA_MESSAGE
    ELSE LET message == GetDescription(e, e.str)
         IN  IF Falsy(message) THEN SUPPORT_MESSAGE ELSE message

\* any exception object: one that arrived in an event or one built here
Exceptions ==
    [ id : {"cause", "new"},
      kind : Kinds,
      description : {Absent, None, "", ORIGINAL_DESCRIPTION},
      str : {"", ORIGINAL_STR} ]

\* _error_to_desc called directly
ErrorToDescCall ==
    /\ descCalls < MaxDescCalls
    /\ \E e \in Exceptions :
          /\ descArg' = e
          /\ descRet' = ErrorToDesc(e)
    /\ descCalls' = descCalls + 1
    /\ UNCHANGED <<errVars, modVars, enrichVars>>

(***************************************************************************)
(* The message table and _handle_error.                                    *)
(***************************************************************************)
MsgIds == 1..MaxMsgId

\* first() found nothing
NoRow == [exists |-> FALSE, status |-> "", error |-> None]

\* a message before any failure
NormalRow == [exists |-> TRUE, status |-> "normal", error |-> None]

\* the message argument: None or a Message object holding an id; the row of
\* that id may have been deleted since the object was loaded
NoMessage == 0
MessageRefs == {NoMessage} \cup MsgIds

\* if message:  (a Message object is true, None is false)
MessageGiven(message) == message # NoMessage

\* The whole body of _handle_error on cause e, argument message and table t:
\* the value returned or the exception raised, the table afterwards and the
\* persistence operations issued.
HandleErrorResult(e, message, t) ==
    LET err == Classify(e)
    IN  IF ~MessageGiven(message)
        THEN [outcome |-> "returned", ret |-> err, raised |-> "none",
              db |-> t, log |-> <<>>]
        ELSE LET row == t[message]          \* query(...).first()
                 err_desc == ErrorToDesc(err)
             IN  IF ~row.exists
                 THEN \* message is None: message.status = 'error' raises
                      [outcome |-> "raised", ret |-> NoException,
                       raised |-> "AttributeError",
                       db |-> t, log |-> <<"query">>]
                 ELSE [outcome |-> "returned", ret |-> err, raised |-> "none",
                       db |-> [t EXCEPT ![message] =
                                  [exists |-> TRUE, status |-> "error",
                                   error |-> err_desc]],
                       log |-> <<"query", "set status", "set error", "commit">>]

NoErrCall == [cause |-> NoException, message |-> NoMessage, outcome |-> "none",
              ret |-> NoException, raised |-> "none"]

HandleError ==
    /\ nErrCalls < MaxErrCalls
    /\ \E e \in Causes, message \in MessageRefs :
          LET r == HandleErrorResult(e, message, db)
          IN  /\ db' = r.db
              /\ dbLog' = r.log
              /\ errCall' = [cause |-> e, message |-> message,
                             outcome |-> r.outcome, ret |-> r.ret,
                             raised |-> r.raised]
    /\ nErrCalls' = nErrCalls + 1
    /\ UNCHANGED <<modVars, enrichVars, descVars>>

(***************************************************************************)
(* Output moderation.                                                      *)
(***************************************************************************)
Pipelines == 1..MaxPipelines

\* app_config.sensitive_word_avoidance: not configured, or a rule whose
\* config carries the preset response
NoAvoidance == [isNone |-> TRUE, type |-> "", config |-> ""]
Avoidances ==
    { NoAvoidance,
      [isNone |-> FALSE, type |-> "keywords", config |-> "[filtered]"],
      [isNone |-> FALSE, type |-> "api", config |-> "[blocked]"] }

NoHandler == [isNone |-> TRUE, tenant_id |-> "", app_id |-> "",
              rule |-> [type |-> "", config |-> ""], queue_manager |-> ""]

InitOutputModeration(sensitive_word_avoidance) ==
    IF ~sensitive_word_avoidance.isNone
    THEN [isNone |-> FALSE, tenant_id |-> "tenant", app_id |-> "app",
          rule |-> [type |-> sensitive_word_avoidance.type,
                    config |-> sensitive_word_avoidance.config],
          queue_manager |-> "queue_manager"]
    ELSE NoHandler

\* completion texts; the second one trips the rule
Completions == {"", "fine text", "sensitive text"}

\* OutputModeration.moderation_completion: the text, or the rule's preset
\* response when the text is flagged
ModerationCompletion(h, completion, public_event) ==
    IF completion = "sensitive text" THEN h.rule.config ELSE completion

ModEvent(op, text, public_event) ==
    [op |-> op, text |-> text, public_event |-> public_event]

\* a plausible slip: the handler is kept after use
FinishedKeepHandler(h, completion) ==
    IF ~h.isNone
    THEN LET moderated == ModerationCompletion(h, completion, FALSE)
         IN  [handler |-> h, ret |-> moderated,
              ops |-> << ModEvent("stop_thread", "", FALSE),
                         ModEvent("moderation_completion", completion, FALSE),
                         ModEvent("return", moderated, FALSE) >>]
    ELSE [handler |-> h, ret |-> None,
          ops |-> << ModEvent("return", None, FALSE) >>]

\* a plausible slip: the background thread is stopped after moderating
FinishedStopLate(h, completion) ==
    IF ~h.isNone
    THEN LET moderated == ModerationCompletion(h, completion, FALSE)
         IN  [handler |-> NoHandler, ret |-> moderated,
              ops |-> << ModEvent("moderation_completion", completion, FALSE),
                         ModEvent("stop_thread", "", FALSE),
                         ModEvent("discard", "", FALSE),
                         ModEvent("return", moderated, FALSE) >>]
    ELSE [handler |-> h, ret |-> None,
          ops |-> << ModEvent("return", None, FALSE) >>]

\* a plausible slip: without a handler the input is echoed
FinishedEcho(h, completion) ==
    IF ~h.isNone
    THEN LET moderated == ModerationCompletion(h, completion, FALSE)
         IN  [handler |-> NoHandler, ret |-> moderated,
              ops |-> << ModEvent("stop_thread", "", FALSE),
                         ModEvent("moderation_completion", completion, FALSE),
                         ModEvent("discard", "", FALSE),
                         ModEvent("return", moderated, FALSE) >>]
    ELSE [handler |-> h, ret |-> completion,
          ops |-> << ModEvent("return", completion, FALSE) >>]

\* The whole body of _handle_output_moderation_when_task_finished on handler
\* h: the handler afterwards, the value returned and the operations in the
\* order the code performs them.
HandleOutputModerationWhenTaskFinished(h, completion) ==
    IF ~h.isNone
    THEN LET moderated == ModerationCompletion(h, completion, FALSE)
         IN  [handler |-> NoHandler, ret |-> moderated,
              ops |-> << ModEvent("stop_thread", "", FALSE),
                         ModEvent("moderation_completion", completion, FALSE),
                         ModEvent("discard", "", FALSE),
                         ModEvent("return", moderated, FALSE) >>]
    ELSE [handler |-> h, ret |-> None,
          ops |-> << ModEvent("return", None, FALSE) >>]

NoModCall == [completion |-> "", ret |-> None, rule |-> [type |-> "", config |-> ""]]

TaskFinished(p) ==
    /\ nModCalls[p] < MaxModCalls
    /\ \E completion \in Completions :
          LET r == HandleOutputModerationWhenTaskFinished(handler[p], completion)
          IN  /\ handler' = [handler EXCEPT ![p] = r.handler]
              /\ modLog' = [modLog EXCEPT ![p] = @ \o r.ops]
              /\ modCall' = [modCall EXCEPT ![p] =
                                [completion |-> completion, ret |-> r.ret,
                                 rule |-> handler[p].rule]]
    /\ nModCalls' = [nModCalls EXCEPT ![p] = @ + 1]
    /\ UNCHANGED <<config, errVars, enrichVars, descVars>>

(***************************************************************************)
(* Specifications.                                                         *)
(***************************************************************************)
ErrIdle ==
    /\ db = [m \in MsgIds |-> NoRow]
    /\ errCall = NoErrCall
    /\ dbLog = <<>>
    /\ nErrCalls = 0

ModIdle ==
    /\ config = [p \in Pipelines |-> NoAvoidance]
    /\ handler = [p \in Pipelines |-> NoHandler]
    /\ modLog = [p \in Pipelines |-> <<>>]
    /\ modCall = [p \in Pipelines |-> NoModCall]
    /\ nModCalls = [p \in Pipelines |-> 0]

EnrichIdle ==
    /\ enrichIn = <<>>
    /\ enrichOut = <<>>
    /\ enrichCalls = 0

DescIdle ==
    /\ descArg = NoException
    /\ descRet = ""
    /\ descCalls = 0

\* every message id either has a row or has none
InitError ==
    /\ db \in [MsgIds -> {NoRow, NormalRow}]
    /\ errCall = NoErrCall
    /\ dbLog = <<>>
    /\ nErrCalls = 0
    /\ ModIdle
    /\ EnrichIdle
    /\ DescIdle

\* __init__ (line 42) on every pipeline, under each configuration
InitModeration ==
    /\ config \in [Pipelines -> Avoidances]
    /\ handler = [p \in Pipelines |-> InitOutputModeration(config[p])]
    /\ modLog = [p \in Pipelines |-> <<>>]
    /\ modCall = [p \in Pipelines |-> NoModCall]
    /\ nModCalls = [p \in Pipelines |-> 0]
    /\ ErrIdle
    /\ EnrichIdle
    /\ DescIdle

InitEnrich ==
    /\ EnrichIdle
    /\ ErrIdle
    /\ ModIdle
    /\ DescIdle

InitDesc ==
    /\ DescIdle
    /\ ErrIdle
    /\ ModIdle
    /\ EnrichIdle

NextError == HandleError
NextModeration == \E p \in Pipelines : TaskFinished(p)
NextEnrich == Enrich \/ EnrichAgain
NextDesc == ErrorToDescCall

SpecError == InitError /\ [][NextError]_vars
SpecModeration == InitModeration /\ [][NextModeration]_vars
SpecEnrich == InitEnrich /\ [][NextEnrich]_vars
SpecDesc == InitDesc /\ [][NextDesc]_vars

(***************************************************************************)
(* Properties.                                                             *)
(***************************************************************************)
Returned == errCall.outcome = "returned"

\* C1: whenever _handle_error returns on an event whose cause is an
\* InvokeAuthorizationError, with or without a message reference and
\* whatever the cause's own description and str(), the value returned is a
\* new InvokeAuthorizationError whose message is exactly
\* 'Incorrect API key provided'.
C1_AuthorizationFixedMessage ==
    (Returned /\ errCall.cause.kind = "InvokeAuthorizationError")
        => /\ errCall.ret.kind = "InvokeAuthorizationError"
           /\ errCall.ret.str = "Incorrect API key provided"
           /\ errCall.ret.description = "Incorrect API key provided"

\* an authorization failure with its own texts, handled with a message
\* reference whose row was found
C1_Witness ==
    /\ Returned
    /\ errCall.cause.kind = "InvokeAuthorizationError"
    /\ errCall.cause.description = ORIGINAL_DESCRIPTION
    /\ errCall.cause.str = ORIGINAL_STR
    /\ errCall.message # NoMessage
    /\ "commit" \in {dbLog[i] : i \in DOMAIN dbLog}

\* C2: when _handle_error is called with a message reference and the cause
\* is a QuotaExceededError, the error description stored on the message row
\* is the fixed quota message, never the cause's description or str().
C2_QuotaDescriptionStored ==
    (/\ errCall.message # NoMessage
     /\ errCall.cause.kind = "QuotaExceededError"
     /\ "set error" \in {dbLog[i] : i \in DOMAIN dbLog})
        => /\ db[errCall.message].error =
                "Your quota for Dify Hosted Model Provider has been exhausted. Please go to Settings -> Model Provider to complete your own provider credentials."
           /\ db[errCall.message].error # errCall.cause.description
           /\ db[errCall.message].error # errCall.cause.str

\* a quota failure that carries texts of its own was stored on a row
C2_Witness ==
    /\ errCall.message # NoMessage
    /\ errCall.cause.kind = "QuotaExceededError"
    /\ errCall.cause.description = ORIGINAL_DESCRIPTION
    /\ errCall.cause.str = ORIGINAL_STR
    /\ db[errCall.message].status = "error"
    /\ "commit" \in {dbLog[i] : i \in DOMAIN dbLog}

\* C3: after any call of _handle_error, if a message reference was given the
\* row of that id has status 'error', a non-empty error description and the
\* change was committed; if none was given, no persistence operation was
\* issued and every row is as before.
C3_PersistenceEffect ==
    [][ nErrCalls' = nErrCalls + 1 =>
          IF errCall'.message # NoMessage
          THEN /\ db'[errCall'.message].exists
               /\ db'[errCall'.message].status = "error"
               /\ db'[errCall'.message].error \notin {None, ""}
               /\ dbLog'[Len(dbLog')] = "commit"
          ELSE /\ dbLog' = <<>>
               /\ db' = db ]_vars

\* C4: _handle_error never raises: every call, also one whose message
\* reference has no row any more, ends by returning the classified failure.
C4_NeverRaises ==
    errCall.outcome # "none"
        => /\ errCall.outcome = "returned"
           /\ errCall.ret # NoException

\* C5: on a pipeline built with sensitive-word avoidance enabled, the first
\* finished-call returns the handler's moderated text and discards the
\* handler; every later call returns None and moderates nothing.
C5_OneShot ==
    \A p \in Pipelines :
        (~config[p].isNone /\ nModCalls[p] >= 1)
            => /\ handler[p].isNone
               /\ Len(modLog[p]) = 3 + nModCalls[p]
               /\ modLog[p][2].op = "moderation_completion"
               /\ modLog[p][4].op = "return"
               /\ modLog[p][4].text = ModerationCompletion(InitOutputModeration(config[p]), modLog[p][2].text, FALSE)
               /\ \A i \in 5..Len(modLog[p]) :
                     modLog[p][i].op = "return" /\ modLog[p][i].text = None
               /\ nModCalls[p] = 1 =>
                     modCall[p].ret = ModerationCompletion(InitOutputModeration(config[p]), modCall[p].completion, FALSE)
               /\ nModCalls[p] >= 2 => modCall[p].ret = None

\* an enabled pipeline whose first call rewrote a flagged text and whose
\* second call returned None
C5_Witness ==
    \E p \in Pipelines :
        /\ ~config[p].isNone
        /\ nModCalls[p] = 2
        /\ modLog[p][2].text = "sensitive text"
        /\ modLog[p][4].text = "[filtered]"
        /\ modCall[p].ret = None

\* C6: on a pipeline built without sensitive-word avoidance the handler is
\* absent from construction onward, and every finished-call returns None,
\* not the input, and invokes no moderation operation.
C6_DisabledInert ==
    \A p \in Pipelines :
        config[p].isNone
            => /\ handler[p].isNone
               /\ nModCalls[p] >= 1 => modCall[p].ret = None
               /\ Len(modLog[p]) = nModCalls[p]
               /\ \A i \in DOMAIN modLog[p] :
                     modLog[p][i].op = "return" /\ modLog[p][i].text = None

\* a disabled pipeline that was finished twice, last with a non-empty text
C6_Witness ==
    \E p \in Pipelines :
        /\ config[p].isNone
        /\ nModCalls[p] = 2
        /\ modCall[p].completion = "fine text"

\* C7 as stated: input containing 'suspicious' (also input that already
\* carries the note) yields output containing the note exactly once; other
\* input is returned unchanged.
C7_NoteExactlyOnce ==
    enrichCalls >= 1 =>
        IF Contains(SUSPICIOUS, enrichIn)
        THEN Occurrences(NOTE, enrichOut) = 1
        ELSE enrichOut = enrichIn

\* C7 amended: input containing 'suspicious' is returned with a newline and
\* the note appended, so the output holds the note once more than the input
\* does (exactly once only when the input holds none); other input is
\* returned unchanged.
C7_NoteOnceMore ==
    enrichCalls >= 1 =>
        IF Contains(SUSPICIOUS, enrichIn)
        THEN /\ Len(enrichOut) = Len(enrichIn) + 1 + Len(NOTE)
             /\ SubSeq(enrichOut, 1, Len(enrichIn)) = enrichIn
             /\ enrichOut[Len(enrichIn) + 1] = "\n"
             /\ OccursAt(NOTE, enrichOut, Len(enrichIn) + 2)
             /\ Occurrences(NOTE, enrichOut) = Occurrences(NOTE, enrichIn) + 1
             /\ Occurrences(NOTE, enrichIn) = 0 => Occurrences(NOTE, enrichOut) = 1
        ELSE enrichOut = enrichIn

\* the output of one call was enriched again and now holds the note twice
C7_Witness ==
    /\ enrichCalls = 2
    /\ Contains(SUSPICIOUS, enrichIn)
    /\ Occurrences(NOTE, enrichIn) = 1
    /\ Occurrences(NOTE, enrichOut) = 2

\* C8: _error_to_desc never returns an empty description, and for a failure
\* that is not a QuotaExceededError, has no description (or one that is None
\* or empty) and an empty str(), it returns the fixed support message.
C8_SupportFallback ==
    descCalls >= 1 =>
        /\ descRet \notin {None, "", Absent}
        /\ (/\ descArg.kind # "QuotaExceededError"
            /\ descArg.description \in {Absent, None, ""}
            /\ descArg.str = "")
              => descRet = "Internal Server Error, please contact support."

\* a failure whose description is None and whose str() is empty
C8_Witness ==
    /\ descCalls >= 1
    /\ descArg.kind = "Exception"
    /\ descArg.description = None
    /\ descArg.str = ""
    /\ descRet = "Internal Server Error, please contact support."

\* C9: on one pipeline stop_thread and moderation_completion are each
\* invoked at most once, and in the order stop_thread, then
\* moderation_completion with public_event false, then the discard of the
\* handler, then the return of the moderated text.
C9_OnceAndInOrder ==
    \A p \in Pipelines :
        LET L == modLog[p]
            At(op) == {i \in DOMAIN L : L[i].op = op}
        IN  /\ Cardinality(At("stop_thread")) <= 1
            /\ Cardinality(At("moderation_completion")) <= 1
            /\ Cardinality(At("discard")) <= 1
            /\ \A i \in At("stop_thread") :
                  /\ i + 3 <= Len(L)
                  /\ L[i + 1].op = "moderation_completion"
                  /\ L[i + 1].public_event = FALSE
                  /\ L[i + 2].op = "discard"
                  /\ L[i + 3].op = "return"
                  /\ L[i + 3].text = ModerationCompletion(InitOutputModeration(config[p]), L[i + 1].text, FALSE)
            /\ \A i \in At("moderation_completion") \cup At("discard") :
                  \E j \in At("stop_thread") : j < i

\* an enabled pipeline finished twice: four operations, then a bare return
C9_Witness ==
    \E p \in Pipelines :
        /\ nModCalls[p] = 2
        /\ Len(modLog[p]) = 5
        /\ modLog[p][1].op = "stop_thread"
        /\ modLog[p][5].op = "return"

\* C10: when _handle_error returns, an InvokeError other than the
\* authorization failure, or a ValueError, is returned as the very same
\* object; any other cause is wrapped into a new generic Exception whose
\* message is the cause's description when that is present and not None,
\* and the cause's str() otherwise.
C10_Classification ==
    (Returned /\ errCall.cause.kind # "InvokeAuthorizationError")
        => IF errCall.cause.kind \in {"InvokeError", "ValueError", "QuotaExceededError"}
           THEN errCall.ret = errCall.cause
           ELSE /\ errCall.ret.id = "new"
                /\ errCall.ret.kind = "Exception"
                /\ errCall.ret.str =
                     IF errCall.cause.description \notin {Absent, None}
                     THEN errCall.cause.description
                     ELSE errCall.cause.str

\* an unclassified failure with both a description and a different str()
\* was wrapped
C10_Witness ==
    /\ Returned
    /\ errCall.cause.kind = "Exception"
    /\ errCall.cause.description = ORIGINAL_DESCRIPTION
    /\ errCall.cause.str = ORIGINAL_STR
    /\ errCall.ret.str = ORIGINAL_DESCRIPTION

====
